---- MODULE Spec2Model ----
(***************************************************************************)
(* Wiener's attack on RSA with a small private exponent.                   *)
(*                                                                         *)
(* The module models the two driver programs of the repository run on the  *)
(* same public key (e, N):                                                 *)
(*   - wiener_attack.cpp : computeContinuedFraction, buildConvergents,     *)
(*     tryRecoverFromConvergent, wienerAttack and main;                    *)
(*   - wiener.cpp : oblicz_wartosc_ulamka_lancuchowego, attack and main.   *)
(* The two programs are independent processes; their steps interleave.     *)
(* Every loop iteration of the source is one step of the model.            *)
(***************************************************************************)
EXTENDS Integers, Sequences, FiniteSets, TLC

(***************************************************************************)
(* Bounds of the model.                                                    *)
(***************************************************************************)
\* public exponents explored by the exhaustive specification: 1..MaxE
MaxE == 40
\* moduli explored by the exhaustive specification: 1..MaxN
MaxN == 40
\* largest modulus p*q of the generated RSA keys
MaxKeyN == 8000
\* largest private exponent of the generated RSA keys
MaxD == 3

(***************************************************************************)
(* Arithmetic primitives of NTL::ZZ used by the programs.                  *)
(***************************************************************************)
Abs(x) == IF x < 0 THEN -x ELSE x

\* NTL divide(a, b): does b divide a (b = 0 divides only 0)
Divide(a, b) == IF b = 0 THEN a = 0 ELSE a % Abs(b) = 0

RECURSIVE SqrRootSearch(_, _, _)
\* largest r in lo..hi with r*r <= n, by bisection (lo*lo <= n < (hi+1)^2)
SqrRootSearch(n, lo, hi) ==
    IF lo >= hi THEN lo
    ELSE LET mid == (lo + hi + 1) \div 2
         IN IF mid * mid <= n THEN SqrRootSearch(n, mid, hi)
                              ELSE SqrRootSearch(n, lo, mid - 1)

\* NTL SqrRoot(n): floor of the square root of n >= 0
SqrRoot(n) == SqrRootSearch(n, 0, IF n < 46340 THEN n ELSE 46340)

RECURSIVE GCD(_, _)
GCD(a, b) == IF b = 0 THEN a ELSE GCD(b, a % b)

\* std::optional<pair<ZZ,ZZ>>: nullopt is the empty sequence, a value is <<q, d>>
nullopt == << >>
has_value(r) == Len(r) = 2

(***************************************************************************)
(* The inputs: the public key, and for generated keys the secret it was    *)
(* built from.                                                             *)
(***************************************************************************)
NoKey == [p |-> 0, q |-> 0, d |-> 0]

IsPrime(n) == n >= 2 /\ \A k \in 2..90 : (k * k > n) \/ (n % k # 0)

OddPrimes == {n \in 3..(MaxKeyN \div 3) : IsPrime(n)}

\* the inverse of d modulo phi, for gcd(d, phi) = 1
ModInverse(d, phi) ==
    LET j == CHOOSE j \in 0..(d - 1) : (j * phi + 1) % d = 0
    IN ((j * phi + 1) \div d) % phi

\* RSA keys with distinct odd primes p < q and 81 * d^4 < N
WienerKeys ==
    {k \in [p : OddPrimes, q : OddPrimes, d : 1..MaxD] :
        /\ k.p < k.q
        /\ k.p * k.q <= MaxKeyN
        /\ 81 * k.d * k.d * k.d * k.d < k.p * k.q
        /\ GCD((k.p - 1) * (k.q - 1), k.d) = 1}

VARIABLES
    e, N, key,
    \* wiener_attack.cpp
    a_pc, num, den, cf, P, Q, i, tried, result, out,
    \* wiener.cpp
    w_pc, licznik, mianownik, wartosc_ulamka, wP, wQ, wi, p1, p2, wynik, w_out

inputs == <<e, N, key>>
a_vars == <<a_pc, num, den, cf, P, Q, i, tried, result, out>>
w_vars == <<w_pc, licznik, mianownik, wartosc_ulamka, wP, wQ, wi, p1, p2, wynik, w_out>>
vars == <<e, N, key, a_pc, num, den, cf, P, Q, i, tried, result, out,
          w_pc, licznik, mianownik, wartosc_ulamka, wP, wQ, wi, p1, p2, wynik, w_out>>

\* the outcome of a driver before it has ended
Running == [code |-> -1, fault |-> "none", p |-> 0, q |-> 0, d |-> 0, phiN |-> 0]

\* both programs started on (e0, N0): main has parsed and validated the arguments
Start(e0, N0, k) ==
    /\ e = e0 /\ N = N0 /\ key = k
    /\ a_pc = "cf" /\ num = e0 /\ den = N0 /\ cf = << >>
    /\ P = << >> /\ Q = << >> /\ i = 0 /\ tried = << >>
    /\ result = nullopt /\ out = Running
    /\ w_pc = "cf" /\ licznik = e0 /\ mianownik = N0 /\ wartosc_ulamka = << >>
    /\ wP = << >> /\ wQ = << >> /\ wi = 0 /\ p1 = 0 /\ p2 = 0
    /\ wynik = << >> /\ w_out = Running

Init == \E e0 \in 1..MaxE, N0 \in 1..MaxN : Start(e0, N0, NoKey)

InitKeys ==
    \E k \in WienerKeys :
        Start(ModInverse(k.d, (k.p - 1) * (k.q - 1)), k.p * k.q, k)

(***************************************************************************)
(* wiener_attack.cpp                                                       *)
(***************************************************************************)

\* CFStep with the remainder computed as num - q instead of num - q * den
CFStepRemainderSlip ==
    /\ a_pc = "cf"
    /\ den # 0
    /\ LET q == num \div den
           rem == num - q
       IN /\ cf' = Append(cf, q)
          /\ num' = den
          /\ den' = rem
    /\ UNCHANGED <<a_pc, P, Q, i, tried, result, out>>
    /\ UNCHANGED inputs /\ UNCHANGED w_vars

\* one evaluation of the loop of computeContinuedFraction with den # 0
CFStep ==
    /\ a_pc = "cf"
    /\ den # 0
    /\ LET q == num \div den
           rem == num - q * den
       IN /\ cf' = Append(cf, q)
          /\ num' = den
          /\ den' = rem
    /\ UNCHANGED <<a_pc, P, Q, i, tried, result, out>>
    /\ UNCHANGED inputs /\ UNCHANGED w_vars

\* the loop of computeContinuedFraction ends and wienerAttack goes on with cf
WienerAttackBegin ==
    /\ a_pc = "cf"
    /\ den = 0
    /\ IF cf = << >>
       THEN /\ result' = nullopt
            /\ a_pc' = "main"
       ELSE /\ result' = result
            /\ a_pc' = "build"
    /\ P' = << >> /\ Q' = << >> /\ i' = 0
    /\ UNCHANGED <<num, den, cf, tried, out>>
    /\ UNCHANGED inputs /\ UNCHANGED w_vars

\* BuildStep with P_1 = a_1 * a_0, the "+ 1" of the base case forgotten
BuildStepBaseCaseSlip ==
    /\ a_pc = "build"
    /\ IF i < Len(cf)
       THEN /\ IF i = 0
               THEN /\ P' = Append(P, cf[1])
                    /\ Q' = Append(Q, 1)
               ELSE IF i = 1
               THEN /\ P' = Append(P, cf[2] * cf[1])
                    /\ Q' = Append(Q, cf[2])
               ELSE /\ P' = Append(P, cf[i + 1] * P[i] + P[i - 1])
                    /\ Q' = Append(Q, cf[i + 1] * Q[i] + Q[i - 1])
            /\ i' = i + 1
            /\ a_pc' = a_pc
       ELSE /\ i' = 0
            /\ a_pc' = "scan"
            /\ UNCHANGED <<P, Q>>
    /\ UNCHANGED <<num, den, cf, tried, result, out>>
    /\ UNCHANGED inputs /\ UNCHANGED w_vars

\* one evaluation of the loop of buildConvergents (i is the 0-based index)
BuildStep ==
    /\ a_pc = "build"
    /\ IF i < Len(cf)
       THEN /\ IF i = 0
               THEN /\ P' = Append(P, cf[1])
                    /\ Q' = Append(Q, 1)
               ELSE IF i = 1
               THEN /\ P' = Append(P, cf[2] * cf[1] + 1)
                    /\ Q' = Append(Q, cf[2])
               ELSE /\ P' = Append(P, cf[i + 1] * P[i] + P[i - 1])
                    /\ Q' = Append(Q, cf[i + 1] * Q[i] + Q[i - 1])
            /\ i' = i + 1
            /\ a_pc' = a_pc
       ELSE /\ i' = 0
            /\ a_pc' = "scan"
            /\ UNCHANGED <<P, Q>>
    /\ UNCHANGED <<num, den, cf, tried, result, out>>
    /\ UNCHANGED inputs /\ UNCHANGED w_vars

isPerfectSquare(n) == n >= 0 /\ SqrRoot(n) * SqrRoot(n) = n

\* the body of the loop over {r1, r2}: is rootCand / twoA accepted as a factor
RootAccepted(rootCand, twoA, N0) ==
    /\ Divide(rootCand, twoA)
    /\ rootCand \div twoA > 0
    /\ Divide(N0, rootCand \div twoA)

\* tryRecoverFromConvergent with numer = e * d, the "- 1" forgotten
tryRecoverNumerSlip(k, d, e0, N0) ==
    IF k = 0 THEN nullopt
    ELSE LET numer == e0 * d IN
    IF ~Divide(numer, k) THEN nullopt
    ELSE LET phiN == numer \div k
             a == 1
             b == -((N0 - phiN) + 1)
             c == N0
             delta == b * b - 4 * a * c
         IN
    IF delta < 0 THEN nullopt
    ELSE IF ~isPerfectSquare(delta) THEN nullopt
    ELSE LET sqrtDelta == SqrRoot(delta)
             twoA == 2 * a
             r1 == -b + sqrtDelta
             r2 == -b - sqrtDelta
         IN IF RootAccepted(r1, twoA, N0) THEN <<r1 \div twoA, d>>
            ELSE IF RootAccepted(r2, twoA, N0) THEN <<r2 \div twoA, d>>
            ELSE nullopt

\* tryRecoverFromConvergent returning the root numerator rootCand instead of
\* the root rootCand / twoA
tryRecoverRootCandSlip(k, d, e0, N0) ==
    IF k = 0 THEN nullopt
    ELSE LET numer == e0 * d - 1 IN
    IF ~Divide(numer, k) THEN nullopt
    ELSE LET phiN == numer \div k
             a == 1
             b == -((N0 - phiN) + 1)
             c == N0
             delta == b * b - 4 * a * c
         IN
    IF delta < 0 THEN nullopt
    ELSE IF ~isPerfectSquare(delta) THEN nullopt
    ELSE LET sqrtDelta == SqrRoot(delta)
             twoA == 2 * a
             r1 == -b + sqrtDelta
             r2 == -b - sqrtDelta
         IN IF RootAccepted(r1, twoA, N0) THEN <<r1, d>>
            ELSE IF RootAccepted(r2, twoA, N0) THEN <<r2, d>>
            ELSE nullopt

tryRecoverFromConvergent(k, d, e0, N0) ==
    IF k = 0 THEN nullopt
    ELSE LET numer == e0 * d - 1 IN
    IF ~Divide(numer, k) THEN nullopt
    ELSE LET phiN == numer \div k
             a == 1
             b == -((N0 - phiN) + 1)
             c == N0
             delta == b * b - 4 * a * c
         IN
    IF delta < 0 THEN nullopt
    ELSE IF ~isPerfectSquare(delta) THEN nullopt
    ELSE LET sqrtDelta == SqrRoot(delta)
             twoA == 2 * a
             r1 == -b + sqrtDelta
             r2 == -b - sqrtDelta
         IN IF RootAccepted(r1, twoA, N0) THEN <<r1 \div twoA, d>>
            ELSE IF RootAccepted(r2, twoA, N0) THEN <<r2 \div twoA, d>>
            ELSE nullopt

\* ScanStep that records a candidate but goes on scanning instead of returning
ScanStepNoReturn ==
    /\ a_pc = "scan"
    /\ IF i < Len(P)
       THEN LET res == tryRecoverFromConvergent(P[i + 1], Q[i + 1], e, N)
            IN /\ tried' = Append(tried, i)
               /\ result' = IF has_value(res) THEN res ELSE result
               /\ a_pc' = a_pc
               /\ i' = i + 1
       ELSE /\ result' = result
            /\ a_pc' = "main"
            /\ UNCHANGED <<i, tried>>
    /\ UNCHANGED <<num, den, cf, P, Q, out>>
    /\ UNCHANGED inputs /\ UNCHANGED w_vars

\* one evaluation of the loop of wienerAttack (i is the 0-based index)
ScanStep ==
    /\ a_pc = "scan"
    /\ IF i < Len(P)
       THEN LET res == tryRecoverFromConvergent(P[i + 1], Q[i + 1], e, N)
            IN /\ tried' = Append(tried, i)
               /\ IF has_value(res)
                  THEN /\ result' = res
                       /\ a_pc' = "main"
                       /\ i' = i
                  ELSE /\ result' = result
                       /\ a_pc' = a_pc
                       /\ i' = i + 1
       ELSE /\ result' = nullopt
            /\ a_pc' = "main"
            /\ UNCHANGED <<i, tried>>
    /\ UNCHANGED <<num, den, cf, P, Q, out>>
    /\ UNCHANGED inputs /\ UNCHANGED w_vars

\* MainOutcome that skips the verification when the modulus is zero
MainOutcomeZeroModulusSkipped(e0, N0, res) ==
    IF ~has_value(res)
    THEN [Running EXCEPT !.code = 3]
    ELSE LET q == res[1]
             d == res[2]
         IN
    IF q = 0 \/ d = 0
    THEN [Running EXCEPT !.code = 3, !.q = q, !.d = d]
    ELSE IF ~Divide(N0, q)
    THEN [Running EXCEPT !.code = 4, !.q = q, !.d = d]
    ELSE LET p == N0 \div q
             phiN == (p - 1) * (q - 1)
             r == [Running EXCEPT !.p = p, !.q = q, !.d = d, !.phiN = phiN]
         IN
    IF phiN # 0 /\ (e0 * d) % phiN # 1
    THEN [r EXCEPT !.code = 5]
    ELSE [r EXCEPT !.code = 0]

\* NTL MulMod(a, b, n) computes (a*b) mod n and raises an error for n = 0
\* main of wiener_attack.cpp after wienerAttack has returned res
MainOutcome(e0, N0, res) ==
    IF ~has_value(res)
    THEN [Running EXCEPT !.code = 3]
    ELSE LET q == res[1]
             d == res[2]
         IN
    IF q = 0 \/ d = 0
    THEN [Running EXCEPT !.code = 3, !.q = q, !.d = d]
    ELSE IF ~Divide(N0, q)
    THEN [Running EXCEPT !.code = 4, !.q = q, !.d = d]
    ELSE LET p == N0 \div q
             phiN == (p - 1) * (q - 1)
             r == [Running EXCEPT !.p = p, !.q = q, !.d = d, !.phiN = phiN]
         IN
    IF phiN = 0
    THEN [r EXCEPT !.fault = "modulo_zero"]
    ELSE IF (e0 * d) % phiN # 1
    THEN [r EXCEPT !.code = 5]
    ELSE [r EXCEPT !.code = 0]

Main ==
    /\ a_pc = "main"
    /\ out' = MainOutcome(e, N, result)
    /\ a_pc' = "done"
    /\ UNCHANGED <<num, den, cf, P, Q, i, tried, result>>
    /\ UNCHANGED inputs /\ UNCHANGED w_vars

ANext == CFStep \/ WienerAttackBegin \/ BuildStep \/ ScanStep \/ Main

(***************************************************************************)
(* wiener.cpp                                                              *)
(***************************************************************************)

\* one evaluation of the loop of oblicz_wartosc_ulamka_lancuchowego
WCFStep ==
    /\ w_pc = "cf"
    /\ mianownik # 0
    /\ LET iloraz == licznik \div mianownik
           tmp == licznik
       IN /\ wartosc_ulamka' = Append(wartosc_ulamka, iloraz)
          /\ licznik' = mianownik
          /\ mianownik' = tmp - (mianownik * iloraz)
    /\ UNCHANGED <<w_pc, wP, wQ, wi, p1, p2, wynik, w_out>>
    /\ UNCHANGED inputs /\ UNCHANGED a_vars

\* the expansion is returned to attack
WCFReturn ==
    /\ w_pc = "cf"
    /\ mianownik = 0
    /\ w_pc' = "attack"
    /\ UNCHANGED <<licznik, mianownik, wartosc_ulamka, wP, wQ, wi, p1, p2, wynik, w_out>>
    /\ UNCHANGED inputs /\ UNCHANGED a_vars

\* the test of one convergent (k, d) in attack; p1old and p2old are the values
\* the locals p1 and p2 hold when the iteration starts
CheckConvergent(k, d, e0, N0, p1old, p2old) ==
    LET miss == [found |-> FALSE, wynik |-> << >>, p1 |-> p1old, p2 |-> p2old] IN
    IF k = 0 THEN miss
    ELSE IF ~Divide((e0 * d) - 1, k) THEN miss
    ELSE LET phiN == ((e0 * d) - 1) \div k
             a == 1
             b == -((N0 - phiN) + 1)
             c == N0
             delta == b * b - 4 * (a * c)
         IN
    IF delta > 0
    THEN LET s1 == -b + SqrRoot(delta)
             s2 == -b - SqrRoot(delta)
         IN IF Divide(s1, 2 * a)
            THEN LET h1 == s1 \div (2 * a)
                 IN IF h1 > 0 /\ Divide(N0, h1)
                    THEN [found |-> TRUE, wynik |-> <<N0 \div h1, d>>,
                          p1 |-> h1, p2 |-> s2]
                    ELSE [miss EXCEPT !.p1 = h1, !.p2 = s2]
            ELSE IF Divide(s2, 2 * a)
            THEN LET h2 == s2 \div (2 * a)
                 IN IF h2 > 0 /\ Divide(N0, h2)
                    THEN [found |-> TRUE, wynik |-> <<N0 \div h2, d>>,
                          p1 |-> s1, p2 |-> h2]
                    ELSE [miss EXCEPT !.p1 = s1, !.p2 = h2]
            ELSE [miss EXCEPT !.p1 = s1, !.p2 = s2]
    ELSE IF delta = 0
    THEN IF Divide(-b, 2 * a)
         THEN LET h1 == p1old \div (2 * a)
              IN IF h1 > 0 /\ Divide(N0, h1)
                 THEN [found |-> TRUE, wynik |-> <<N0 \div h1, d>>,
                       p1 |-> h1, p2 |-> p2old]
                 ELSE [miss EXCEPT !.p1 = h1]
         ELSE miss
    ELSE miss

\* one evaluation of the loop of attack (wi is the 0-based index i)
AttackStep ==
    /\ w_pc = "attack"
    /\ IF wi < Len(wartosc_ulamka)
       THEN LET nP == IF wi = 0 THEN Append(wP, wartosc_ulamka[1])
                      ELSE IF wi = 1
                      THEN Append(wP, (wartosc_ulamka[2] * wartosc_ulamka[1]) + 1)
                      ELSE Append(wP, (wartosc_ulamka[wi + 1] * wP[wi]) + wP[wi - 1])
                nQ == IF wi = 0 THEN Append(wQ, 1)
                      ELSE IF wi = 1 THEN Append(wQ, wartosc_ulamka[2])
                      ELSE Append(wQ, (wartosc_ulamka[wi + 1] * wQ[wi]) + wQ[wi - 1])
                r == CheckConvergent(nP[wi + 1], nQ[wi + 1], e, N, p1, p2)
            IN /\ wP' = nP
               /\ wQ' = nQ
               /\ p1' = r.p1
               /\ p2' = r.p2
               /\ IF r.found
                  THEN /\ wynik' = r.wynik
                       /\ w_pc' = "main"
                       /\ wi' = wi
                  ELSE /\ wynik' = wynik
                       /\ w_pc' = w_pc
                       /\ wi' = wi + 1
       ELSE /\ wynik' = <<0>>
            /\ w_pc' = "main"
            /\ UNCHANGED <<wP, wQ, wi, p1, p2>>
    /\ UNCHANGED <<licznik, mianownik, wartosc_ulamka, w_out>>
    /\ UNCHANGED inputs /\ UNCHANGED a_vars

\* main of wiener.cpp after attack has returned w: the outcomes the run can have.
\* Reading wynik[1] of a one-element vector is an out-of-range read: the run
\* stops there or goes on to N / q with q = 0, which NTL rejects.
WMainOutcomes(e0, N0, w) ==
    IF Len(w) < 2
    THEN {[Running EXCEPT !.fault = f, !.q = w[1]] :
              f \in {"out_of_range_read", "division_by_zero"}}
    ELSE LET q == w[1]
             d == w[2]
         IN
    IF q = 0
    THEN {[Running EXCEPT !.fault = "division_by_zero", !.d = d]}
    ELSE LET p == N0 \div q
             phiN == (p - 1) * (q - 1)
             r == [Running EXCEPT !.p = p, !.q = q, !.d = d, !.phiN = phiN]
         IN
    IF phiN = 0
    THEN {[r EXCEPT !.fault = "modulo_zero"]}
    ELSE IF (e0 * d) % phiN # 1
    THEN {[r EXCEPT !.fault = "assertion_failed"]}
    ELSE {[r EXCEPT !.code = 0]}

WMain ==
    /\ w_pc = "main"
    /\ \E o \in WMainOutcomes(e, N, wynik) : w_out' = o
    /\ w_pc' = "done"
    /\ UNCHANGED <<licznik, mianownik, wartosc_ulamka, wP, wQ, wi, p1, p2, wynik>>
    /\ UNCHANGED inputs /\ UNCHANGED a_vars

WNext == WCFStep \/ WCFReturn \/ AttackStep \/ WMain

(***************************************************************************)
(* Specifications                                                          *)
(***************************************************************************)
Next == ANext \/ WNext

\* every public key (e, N) with 1 <= e <= MaxE and 1 <= N <= MaxN
Spec == Init /\ [][Next]_vars

\* the RSA keys of WienerKeys
SpecKeys == InitKeys /\ [][Next]_vars

\* a started program keeps running until it ends
FairSpec == Spec /\ WF_vars(ANext) /\ WF_vars(WNext)

(***************************************************************************)
(* Properties                                                              *)
(***************************************************************************)
\* wienerAttack has returned to main
AReturned == a_pc \in {"main", "done"}
\* attack of wiener.cpp has returned to main
WReturned == w_pc \in {"main", "done"}
\* the generated key has balanced primes: p < q < 2p
Balanced == key.p < key.q /\ key.q < 2 * key.p
\* the run of wiener_attack.cpp ended in success with the secret of the key
KeyRecovered ==
    /\ out.code = 0
    /\ {out.p, out.q} = {key.p, key.q}
    /\ out.d = key.d

\* C1 as stated: for every generated key (distinct odd primes, gcd(d, phi) = 1,
\* 81*d^4 < N) the run of wiener_attack.cpp succeeds, is verified, returns
\* the factors {p, q} and the private exponent d.
C1_Original == (key # NoKey /\ a_pc = "done") => KeyRecovered

\* C1 amended: the same for the keys with d >= 2 and balanced primes
\* (the smaller prime p and the larger q satisfy p < q < 2p).
C1_BalancedKeyRecovered ==
    (key # NoKey /\ key.d >= 2 /\ Balanced /\ a_pc = "done") => KeyRecovered

C1_Witness ==
    /\ key # NoKey /\ key.d >= 2 /\ Balanced
    /\ a_pc = "done" /\ out.code = 0 /\ out.d = key.d

\* C2: whenever the run of wiener_attack.cpp ends in success (exit code 0),
\* p * q = N and (e * d) mod ((p-1)*(q-1)) = 1 for the p, q, d it reports.
C2_RoundTrip ==
    (a_pc = "done" /\ out.code = 0) =>
        /\ out.p * out.q = N
        /\ (out.p - 1) * (out.q - 1) > 0
        /\ (e * out.d) % ((out.p - 1) * (out.q - 1)) = 1

C2_Witness == a_pc = "done" /\ out.code = 0 /\ out.d > 1

\* C3: on the degenerate key e = N the expansion is the single term 1, no
\* candidate is found, the run reports no solution (exit code 3) and nothing
\* is divided by or reduced modulo zero.
C3_DegenerateKey ==
    (e = N /\ a_pc = "done") =>
        /\ cf = <<1>>
        /\ result = nullopt
        /\ out.code = 3
        /\ out.fault = "none"

\* C4: every candidate (q, d) returned by wienerAttack has, with p = N / q,
\* a non-zero modulus (p-1)*(q-1) and (e * d) mod ((p-1)*(q-1)) = 1, and main
\* never ends with exit code 5.
C4_VerificationNeverFails ==
    /\ out.code # 5
    /\ (AReturned /\ has_value(result)) =>
           LET q == result[1]
               d == result[2]
               phiN == ((N \div q) - 1) * (q - 1)
           IN /\ phiN # 0
              /\ (e * d) % phiN = 1

\* C5: when no convergent yields a candidate, each driver ends by reporting
\* a failure and not in a fault (no out-of-range read, no division by zero,
\* no reduction modulo zero, no failed assertion).
C5_FailureIsReported ==
    /\ (a_pc = "done" /\ ~has_value(result)) =>
           (out.code = 3 /\ out.fault = "none")
    /\ (w_pc = "done" /\ Len(wynik) < 2) =>
           (w_out.code > 0 /\ w_out.fault = "none")

\* C6: if wienerAttack returns (q, d), then d = Q[j] for the least index j at
\* which tryRecoverFromConvergent succeeds, the indices tried are exactly
\* 0..j in this order (all before j rejected, none after j tried).
C6_FirstMatchWins ==
    (AReturned /\ has_value(result)) =>
        \E j \in 1..Len(P) :
            /\ has_value(tryRecoverFromConvergent(P[j], Q[j], e, N))
            /\ \A l \in 1..(j - 1) :
                   ~has_value(tryRecoverFromConvergent(P[l], Q[l], e, N))
            /\ result[2] = Q[j]
            /\ tried = [x \in 1..j |-> x - 1]

C6_Witness ==
    /\ a_pc = "done" /\ has_value(result)
    /\ Len(tried) >= 2 /\ Len(tried) < Len(P)

\* C7: in the expansion loop the denominator strictly decreases at every
\* iteration and stays >= 0; the attack terminates, the candidate recovery is
\* called at most once per term, and the run ends with a candidate or with
\* the no-solution outcome.
C7_Terminates ==
    /\ [][(a_pc = "cf" /\ cf' # cf) => (den' < den /\ den' >= 0)]_vars
    /\ [](/\ Len(tried) <= Len(cf)
          /\ \A x, y \in 1..Len(tried) : tried[x] = tried[y] => x = y)
    /\ <>AReturned
    /\ [](a_pc = "done" => (has_value(result) \/ out.code = 3))

C7_Witness ==
    /\ a_pc = "done" /\ Len(cf) >= 3
    /\ Len(tried) = Len(cf) /\ out.code = 3

\* C8: attack of wiener.cpp finds a candidate exactly when wienerAttack of
\* wiener_attack.cpp does, and then both return the same q and the same d.
C8_SameResults ==
    (AReturned /\ WReturned) =>
        /\ has_value(result) <=> (Len(wynik) = 2)
        /\ (has_value(result) /\ Len(wynik) = 2) => wynik = result

\* C9: buildConvergents returns P and Q of the length of the term sequence,
\* and the last convergent is e/N in lowest terms.
C9_LastConvergent ==
    (a_pc \in {"scan", "main", "done"}) =>
        /\ Len(P) = Len(cf)
        /\ Len(Q) = Len(cf)
        /\ P[Len(cf)] * N = Q[Len(cf)] * e
        /\ GCD(P[Len(cf)], Q[Len(cf)]) = 1

C9_Witness ==
    /\ a_pc = "scan" /\ Len(cf) >= 3 /\ Len(P) = Len(cf)
    /\ GCD(e, N) > 1

\* C10: for N > 1 a returned factor q divides N with 1 < q < N (so does
\* p = N / q), d >= 1, and main never ends with exit code 4.
C10_NonTrivialFactor ==
    /\ (N > 1) => out.code # 4
    /\ (N > 1 /\ AReturned /\ has_value(result)) =>
           LET q == result[1]
               d == result[2]
           IN /\ 1 < q /\ q < N
              /\ N % q = 0
              /\ 1 < N \div q /\ N \div q < N
              /\ d >= 1

C10_Witness == N > 1 /\ a_pc = "done" /\ has_value(result) /\ out.q > 1

====
